---- MODULE Spec2Model ----
(***************************************************************************)
(* Model of rpc-health-checker/generate_providers.py: the provider-spec    *)
(* parser, the single- and multi-provider resolvers, the chain/network     *)
(* filter and the command-line entry point that writes the document.       *)
(* The table is the NETWORK_DATA defined in generate_providers.py itself   *)
(* (the script does not import network_data.py).                           *)
(* Python strings are TLA+ strings, Python dicts are records/functions,    *)
(* Python lists are sequences.                                             *)
(***************************************************************************)
EXTENDS Integers, Sequences, FiniteSets, TLC

VARIABLES
    providers,        \* args.providers: list of provider-spec strings
    networks,         \* args.networks: list of network names
    chains,           \* args.chains: list of chain names
    single_provider,  \* args.single_provider
    pc,               \* position of main()
    i,                \* index of the NETWORK_DATA loop of generate_*_config
    j,                \* index of the providers loop of create_*_entry
    provider_spec_str,\* loop variable of create_*_entry: the spec being read
    provider_spec,    \* local of create_*_entry: the last parsed spec
    provider_counts,  \* local of create_multi_provider_entry (defaultdict(int))
    chain_entry,      \* local: the entry being built / returned (or None)
    output,           \* local of generate_*_config: {"chains": [...]}
    file,             \* content of args.output on disk (None: not written)
    exit_code         \* process exit status (None: still running)

vars == <<providers, networks, chains, single_provider, pc, i, j, provider_spec_str,
          provider_spec, provider_counts, chain_entry, output, file, exit_code>>

\* Python's None, comparable with every dict of the model.
None == [None |-> TRUE]

------------------------------------------------------------------------------
(* Constants of the program *)

INFURA == "infura"
GROVE == "grove"
NODEFLEET == "nodefleet"
STATUS_NETWORK == "status_network"
ALCHEMY == "alchemy"

NETWORK_DATA ==
    << [chain |-> "ethereum", network |-> "mainnet", chainId |-> 1,
        providers |-> (INFURA :> "https://mainnet.infura.io/v3/"
                    @@ GROVE :> "https://eth.rpc.grove.city/v1/"
                    @@ NODEFLEET :> "https://eth-mainnet.alphafleet.io/"
                    @@ ALCHEMY :> "https://eth-mainnet.g.alchemy.com/v2/")],
       [chain |-> "ethereum", network |-> "sepolia", chainId |-> 11155111,
        providers |-> (INFURA :> "https://sepolia.infura.io/v3/"
                    @@ GROVE :> "https://eth-sepolia-testnet.rpc.grove.city/v1/"
                    @@ NODEFLEET :> "https://eth-sepolia.alphafleet.io/"
                    @@ ALCHEMY :> "https://eth-sepolia.g.alchemy.com/v2/")],
       [chain |-> "optimism", network |-> "mainnet", chainId |-> 10,
        providers |-> (INFURA :> "https://optimism-mainnet.infura.io/v3/"
                    @@ GROVE :> "https://optimism.rpc.grove.city/v1/"
                    @@ NODEFLEET :> "https://optimism-mainnet.alphafleet.io/"
                    @@ ALCHEMY :> "https://opt-mainnet.g.alchemy.com/v2/")],
       [chain |-> "optimism", network |-> "sepolia", chainId |-> 11155420,
        providers |-> (INFURA :> "https://optimism-sepolia.infura.io/v3/"
                    @@ GROVE :> "https://optimism-sepolia-testnet.rpc.grove.city/v1/"
                    @@ NODEFLEET :> "https://optimism-sepolia.alphafleet.io/"
                    @@ ALCHEMY :> "https://opt-sepolia.g.alchemy.com/v2/")],
       [chain |-> "arbitrum", network |-> "mainnet", chainId |-> 42161,
        providers |-> (INFURA :> "https://arbitrum-mainnet.infura.io/v3/"
                    @@ GROVE :> "https://arbitrum-one.rpc.grove.city/v1/"
                    @@ NODEFLEET :> "https://arb-mainnet.alphafleet.io/"
                    @@ ALCHEMY :> "https://arb-mainnet.g.alchemy.com/v2/")],
       [chain |-> "arbitrum", network |-> "sepolia", chainId |-> 421614,
        providers |-> (INFURA :> "https://arbitrum-sepolia.infura.io/v3/"
                    @@ GROVE :> "https://arbitrum-sepolia-testnet.rpc.grove.city/v1/"
                    @@ NODEFLEET :> "https://arb-sepolia.alphafleet.io/"
                    @@ ALCHEMY :> "https://arb-sepolia.g.alchemy.com/v2/")],
       [chain |-> "base", network |-> "mainnet", chainId |-> 8453,
        providers |-> (INFURA :> "https://base-mainnet.infura.io/v3/"
                    @@ GROVE :> "https://base.rpc.grove.city/v1/"
                    @@ NODEFLEET :> "https://base-mainnet.alphafleet.io/"
                    @@ ALCHEMY :> "https://base-mainnet.g.alchemy.com/v2/")],
       [chain |-> "base", network |-> "sepolia", chainId |-> 84532,
        providers |-> (INFURA :> "https://base-sepolia.infura.io/v3/"
                    @@ GROVE :> "https://base-testnet.rpc.grove.city/v1/"
                    @@ NODEFLEET :> "https://base-sepolia.alphafleet.io/"
                    @@ ALCHEMY :> "https://base-sepolia.g.alchemy.com/v2/")],
       [chain |-> "linea", network |-> "mainnet", chainId |-> 59144,
        providers |-> (INFURA :> "https://linea-mainnet.infura.io/v3/"
                    @@ GROVE :> "https://linea.rpc.grove.city/v1/"
                    @@ NODEFLEET :> "https://linea-mainnet.alphafleet.io/"
                    @@ ALCHEMY :> "https://linea-mainnet.g.alchemy.com/v2/")],
       [chain |-> "linea", network |-> "sepolia", chainId |-> 59141,
        providers |-> (INFURA :> "https://linea-sepolia.infura.io/v3/"
                    @@ GROVE :> "https://linea-testnet.rpc.grove.city/v1/"
                    @@ NODEFLEET :> "https://linea-sepolia.alphafleet.io/"
                    @@ ALCHEMY :> "https://linea-sepolia.g.alchemy.com/v2/")],
       [chain |-> "status", network |-> "sepolia", chainId |-> 1660990954,
        providers |-> (STATUS_NETWORK :> "https://public.sepolia.rpc.status.network/")] >>

------------------------------------------------------------------------------
(* Bounds and inputs of the model *)

\* Longest --providers list.
MaxProviders == 2

\* Longest --chains list.
MaxChains == 2

\* The provider-spec strings the --providers list is drawn from: the three
\* formats, a password holding ':', an empty token and the empty string.
ProviderArgs ==
    { "infura:TOK1", "grove:TOK2", "grove:alice:s3cr3t:more",
      "status_network", "infura:", "" }

\* The chains the --chains list is drawn from (a subset of the parser's choices).
ChainArgs == { "ethereum", "status" }

\* The --networks lists (the parser's choices are mainnet and sepolia).
NetworkArgs ==
    { <<"mainnet">>, <<"sepolia">>, <<"mainnet", "sepolia">>, <<"sepolia", "mainnet">> }

\* Non-empty lists (nargs="+") of at most n elements of S.
Lists(S, n) == UNION { [1..k -> S] : k \in 1..n }

------------------------------------------------------------------------------
(* str methods *)

LowerCase == "abcdefghijklmnopqrstuvwxyz"
UpperCase == "ABCDEFGHIJKLMNOPQRSTUVWXYZ"

\* The 1-based position of character c in s, 0 when absent.
RECURSIVE IndexFrom(_, _, _)
IndexFrom(s, c, k) ==
    IF k > Len(s) THEN 0
    ELSE IF SubSeq(s, k, k) = c THEN k
    ELSE IndexFrom(s, c, k + 1)

\* str.upper() / str.lower() of one character: the letters' images.
UpperOf ==
    [c \in { SubSeq(LowerCase, k, k) : k \in 1..Len(LowerCase) } |->
        LET k == IndexFrom(LowerCase, c, 1) IN SubSeq(UpperCase, k, k)]

LowerOf ==
    [c \in { SubSeq(UpperCase, k, k) : k \in 1..Len(UpperCase) } |->
        LET k == IndexFrom(UpperCase, c, 1) IN SubSeq(LowerCase, k, k)]

UpperChar(c) == IF c \in DOMAIN UpperOf THEN UpperOf[c] ELSE c

LowerChar(c) == IF c \in DOMAIN LowerOf THEN LowerOf[c] ELSE c

RECURSIVE LowerStr(_)
LowerStr(s) ==
    IF Len(s) = 0 THEN s
    ELSE LowerChar(SubSeq(s, 1, 1)) \o LowerStr(SubSeq(s, 2, Len(s)))

\* str.capitalize(): first character upper-cased, the rest lower-cased.
Capitalize(s) ==
    IF Len(s) = 0 THEN s
    ELSE UpperChar(SubSeq(s, 1, 1)) \o LowerStr(SubSeq(s, 2, Len(s)))

\* Mutant of Split: maxsplit is ignored, every separator splits.
RECURSIVE Split_NoLimit(_, _, _)
Split_NoLimit(s, sep, maxsplit) ==
    LET k == IndexFrom(s, sep, 1)
    IN  IF k = 0 THEN << s >>
        ELSE << SubSeq(s, 1, k - 1) >>
             \o Split_NoLimit(SubSeq(s, k + 1, Len(s)), sep, maxsplit)

\* str.split(sep, maxsplit) for a one-character sep: a list of at most
\* maxsplit + 1 parts, the last holding the unsplit remainder.
RECURSIVE Split(_, _, _)
Split(s, sep, maxsplit) ==
    LET k == IndexFrom(s, sep, 1)
    IN  IF maxsplit = 0 \/ k = 0 THEN << s >>
        ELSE << SubSeq(s, 1, k - 1) >>
             \o Split(SubSeq(s, k + 1, Len(s)), sep, maxsplit - 1)

\* str(count) inside an f-string.
Str(n) == ToString(n)

------------------------------------------------------------------------------
(* Pure functions of generate_providers.py *)

\* Mutant of parse_provider_spec: the token form also fills the login.
parse_provider_spec_login(spec_str) ==
    LET parts == Split(spec_str, ":", 2)
    IN  IF Len(parts) = 1
        THEN [type |-> spec_str, auth_type |-> "no-auth", auth_token |-> "",
              auth_login |-> "", auth_password |-> ""]
        ELSE IF Len(parts) = 2
        THEN [type |-> parts[1], auth_type |-> "token-auth", auth_token |-> parts[2],
              auth_login |-> parts[2], auth_password |-> ""]
        ELSE [type |-> parts[1], auth_type |-> "basic-auth", auth_token |-> "",
              auth_login |-> parts[2], auth_password |-> parts[3]]

\* Parse provider specification into provider type and auth details.
parse_provider_spec(spec_str) ==
    LET parts == Split(spec_str, ":", 2)
    IN  IF Len(parts) = 1
        THEN [type |-> spec_str, auth_type |-> "no-auth", auth_token |-> "",
              auth_login |-> "", auth_password |-> ""]
        ELSE IF Len(parts) = 2
        THEN [type |-> parts[1], auth_type |-> "token-auth", auth_token |-> parts[2],
              auth_login |-> "", auth_password |-> ""]
        ELSE [type |-> parts[1], auth_type |-> "basic-auth", auth_token |-> "",
              auth_login |-> parts[2], auth_password |-> parts[3]]

\* The count argument of create_provider_entry is optional: << >> is the
\* default (count=None), << n >> is count=n.
NoCount == << >>

\* The display name: f"{p_type.capitalize()}{count}" or p_type.capitalize().
provider_name(p_type, network_data, count) ==
    IF count # NoCount THEN Capitalize(p_type) \o Str(count[1])
    ELSE Capitalize(p_type)

\* Create a provider entry with consistent format.
create_provider_entry(p_type, spec, network_data, count) ==
    [type |-> p_type,
     name |-> provider_name(p_type, network_data, count),
     url |-> network_data.providers[p_type],
     authType |-> spec.auth_type,
     authToken |-> spec.auth_token,
     authLogin |-> spec.auth_login,
     authPassword |-> spec.auth_password,
     chainId |-> network_data.chainId]

\* Create a base chain entry with consistent format.
create_chain_entry(network_data) ==
    [name |-> network_data.chain,
     network |-> network_data.network,
     chainId |-> network_data.chainId]

\* `x in list`
InList(x, list) == \E k \in 1..Len(list) : list[k] = x

\* Mutant of is_selected: `and` in place of `or`, so an entry is skipped
\* only when both its chain and its network are unrequested.
is_selected_either(network_data, in_chains, in_networks) ==
    ~ (~ InList(network_data.chain, in_chains)
       /\ ~ InList(network_data.network, in_networks))

\* The filter of both generate_*_config loops.
is_selected(network_data, in_chains, in_networks) ==
    ~ (~ InList(network_data.chain, in_chains)
       \/ ~ InList(network_data.network, in_networks))

\* `p_type in network_data["providers"]`
has_provider(p_type, network_data) == p_type \in DOMAIN network_data.providers

\* Mutant of increment: one counter shared by all types.
increment_shared(counts, p_type) ==
    LET seen == { counts[t] : t \in DOMAIN counts }
        total == IF seen = {} THEN 0 ELSE CHOOSE m \in seen : \A n \in seen : n <= m
    IN  (p_type :> total + 1) @@ counts

\* provider_counts[p_type] += 1 on a defaultdict(int)
increment(counts, p_type) ==
    IF p_type \in DOMAIN counts
    THEN [counts EXCEPT ![p_type] = @ + 1]
    ELSE (p_type :> 1) @@ counts

\* Mutant of is_valid_chain_entry: the providers key is tested, not its content.
is_valid_chain_entry_key(entry, single) ==
    IF single THEN "provider" \in DOMAIN entry
    ELSE "providers" \in DOMAIN entry

\* Check if chain entry has valid providers.
is_valid_chain_entry(entry, single) ==
    IF single THEN "provider" \in DOMAIN entry
    ELSE IF "providers" \in DOMAIN entry THEN Len(entry.providers) # 0
    ELSE FALSE

------------------------------------------------------------------------------
(* The two generators as functions of their arguments *)

\* The loop of create_single_provider_entry from position k on: the entry of
\* the first spec whose type the network knows, None when there is none.
RECURSIVE ScanSingleFrom(_, _, _)
ScanSingleFrom(provs, network_data, k) ==
    IF k > Len(provs) THEN None
    ELSE LET spec == parse_provider_spec(provs[k])
             p_type == spec.type
         IN  IF ~ has_provider(p_type, network_data)
             THEN ScanSingleFrom(provs, network_data, k + 1)
             ELSE create_chain_entry(network_data)
                  @@ [provider |-> create_provider_entry(p_type, spec,
                                                         network_data, NoCount)]

\* Mutant of create_single_provider_entry: the list is scanned from its end,
\* so the last matching spec wins.
create_single_provider_entry_last(provs, network_data) ==
    ScanSingleFrom([k \in 1..Len(provs) |-> provs[Len(provs) + 1 - k]],
                   network_data, 1)

\* Find and create a single provider entry for the network.
create_single_provider_entry(provs, network_data) ==
    ScanSingleFrom(provs, network_data, 1)

\* The loop of create_multi_provider_entry from position k on, with the
\* counts and the entry built so far.
RECURSIVE ScanMultiFrom(_, _, _, _, _)
ScanMultiFrom(provs, network_data, k, counts, entry) ==
    IF k > Len(provs) THEN entry
    ELSE LET spec == parse_provider_spec(provs[k])
             p_type == spec.type
         IN  IF ~ has_provider(p_type, network_data)
             THEN ScanMultiFrom(provs, network_data, k + 1, counts, entry)
             ELSE LET counted == increment(counts, p_type)
                      count == counted[p_type]
                  IN  ScanMultiFrom(provs, network_data, k + 1, counted,
                        [entry EXCEPT !.providers =
                            Append(@, create_provider_entry(p_type, spec, network_data,
                                                            << count >>))])

\* Create a chain entry with multiple providers.
create_multi_provider_entry(provs, network_data) ==
    ScanMultiFrom(provs, network_data, 1, << >>,
                  create_chain_entry(network_data) @@ [providers |-> << >>])

\* The NETWORK_DATA loop of generate_*_config from position n on, with the
\* output built so far.
RECURSIVE GenerateFrom(_, _, _, _, _, _)
GenerateFrom(single, provs, in_networks, in_chains, n, out) ==
    IF n > Len(NETWORK_DATA) THEN out
    ELSE IF ~ is_selected(NETWORK_DATA[n], in_chains, in_networks)
    THEN GenerateFrom(single, provs, in_networks, in_chains, n + 1, out)
    ELSE LET entry == IF single
                      THEN create_single_provider_entry(provs, NETWORK_DATA[n])
                      ELSE create_multi_provider_entry(provs, NETWORK_DATA[n])
         IN  GenerateFrom(single, provs, in_networks, in_chains, n + 1,
                IF entry # None /\ is_valid_chain_entry(entry, single)
                THEN [out EXCEPT !.chains = Append(@, entry)]
                ELSE out)

\* Generate configuration with single provider per chain.
generate_single_provider_config(provs, in_networks, in_chains) ==
    GenerateFrom(TRUE, provs, in_networks, in_chains, 1, [chains |-> << >>])

\* Generate configuration with multiple providers per chain.
generate_multi_provider_config(provs, in_networks, in_chains) ==
    GenerateFrom(FALSE, provs, in_networks, in_chains, 1, [chains |-> << >>])

------------------------------------------------------------------------------
(* main(): the state machine *)

\* The state after parser.parse_args(): --providers, --networks and --chains
\* take one or more values (nargs="+"), --networks and --chains among the
\* table's names; the generator has not started.
Init ==
    /\ providers \in Lists(ProviderArgs, MaxProviders)
    /\ networks \in NetworkArgs
    /\ chains \in Lists(ChainArgs, MaxChains)
    /\ single_provider \in BOOLEAN
    /\ pc = "generate"
    /\ i = 1
    /\ j = 1
    /\ provider_spec_str = None
    /\ provider_spec = None
    /\ provider_counts = << >>
    /\ chain_entry = None
    /\ output = [chains |-> << >>]
    /\ file = None
    /\ exit_code = None

\* for network_data in NETWORK_DATA: the entry fails the filter -> continue
SkipNetwork ==
    /\ pc = "generate"
    /\ i <= Len(NETWORK_DATA)
    /\ ~ is_selected(NETWORK_DATA[i], chains, networks)
    /\ i' = i + 1
    /\ UNCHANGED <<providers, networks, chains, single_provider, pc, j, provider_spec_str, provider_spec,
                   provider_counts, chain_entry, output, file, exit_code>>

\* The entry passes the filter: call create_single_provider_entry.
EnterSingle ==
    /\ pc = "generate"
    /\ i <= Len(NETWORK_DATA)
    /\ is_selected(NETWORK_DATA[i], chains, networks)
    /\ single_provider
    /\ pc' = "create"
    /\ j' = 1
    /\ chain_entry' = None
    /\ UNCHANGED <<providers, networks, chains, single_provider, i, provider_spec_str, provider_spec,
                   provider_counts, output, file, exit_code>>

\* The entry passes the filter: call create_multi_provider_entry, which
\* starts from the base chain entry, an empty providers list and no counts.
EnterMulti ==
    /\ pc = "generate"
    /\ i <= Len(NETWORK_DATA)
    /\ is_selected(NETWORK_DATA[i], chains, networks)
    /\ ~ single_provider
    /\ pc' = "create"
    /\ j' = 1
    /\ chain_entry' = create_chain_entry(NETWORK_DATA[i]) @@ [providers |-> << >>]
    /\ provider_counts' = << >>
    /\ UNCHANGED <<providers, networks, chains, single_provider, i, provider_spec_str, provider_spec,
                   output, file, exit_code>>

\* Mutant of ScanSingle: the return is missing, so the scan goes on and the
\* last matching spec overwrites the entry.
ScanSingle_NoReturn ==
    /\ pc = "create"
    /\ single_provider
    /\ j <= Len(providers)
    /\ LET spec == parse_provider_spec(providers[j])
           p_type == spec.type
       IN  /\ provider_spec_str' = providers[j]
           /\ provider_spec' = spec
           /\ IF ~ has_provider(p_type, NETWORK_DATA[i])
              THEN UNCHANGED chain_entry
              ELSE chain_entry' =
                        create_chain_entry(NETWORK_DATA[i])
                        @@ [provider |-> create_provider_entry(p_type, spec,
                                                               NETWORK_DATA[i], NoCount)]
           /\ IF j = Len(providers) /\ chain_entry' # None
              THEN pc' = "append" /\ UNCHANGED j
              ELSE j' = j + 1 /\ UNCHANGED pc
    /\ UNCHANGED <<providers, networks, chains, single_provider, i, provider_counts,
                   output, file, exit_code>>

\* One iteration of the loop of create_single_provider_entry: parse the spec,
\* continue when its type is unknown to the network, else build the entry
\* and return it.
ScanSingle ==
    /\ pc = "create"
    /\ single_provider
    /\ j <= Len(providers)
    /\ LET spec == parse_provider_spec(providers[j])
           p_type == spec.type
       IN  /\ provider_spec_str' = providers[j]
           /\ provider_spec' = spec
           /\ IF ~ has_provider(p_type, NETWORK_DATA[i])
              THEN /\ j' = j + 1
                   /\ UNCHANGED <<pc, chain_entry>>
              ELSE /\ chain_entry' =
                        create_chain_entry(NETWORK_DATA[i])
                        @@ [provider |-> create_provider_entry(p_type, spec,
                                                               NETWORK_DATA[i], NoCount)]
                   /\ pc' = "append"
                   /\ UNCHANGED j
    /\ UNCHANGED <<providers, networks, chains, single_provider, i, provider_counts,
                   output, file, exit_code>>

\* create_single_provider_entry ran out of specs: return None.
ReturnNone ==
    /\ pc = "create"
    /\ single_provider
    /\ j > Len(providers)
    /\ chain_entry' = None
    /\ pc' = "append"
    /\ UNCHANGED <<providers, networks, chains, single_provider, i, j, provider_spec_str, provider_spec,
                   provider_counts, output, file, exit_code>>

\* Mutant of ScanMulti: a type already seen for this network is skipped
\* (the providers are deduplicated by type).
ScanMulti_Dedup ==
    /\ pc = "create"
    /\ ~ single_provider
    /\ j <= Len(providers)
    /\ LET spec == parse_provider_spec(providers[j])
           p_type == spec.type
       IN  /\ provider_spec_str' = providers[j]
           /\ provider_spec' = spec
           /\ IF ~ has_provider(p_type, NETWORK_DATA[i]) \/ p_type \in DOMAIN provider_counts
              THEN UNCHANGED <<provider_counts, chain_entry>>
              ELSE LET counts == increment(provider_counts, p_type)
                       count == counts[p_type]
                   IN  /\ provider_counts' = counts
                       /\ chain_entry' =
                            [chain_entry EXCEPT !.providers =
                                Append(@, create_provider_entry(p_type, spec,
                                                                NETWORK_DATA[i], << count >>))]
    /\ j' = j + 1
    /\ UNCHANGED <<providers, networks, chains, single_provider, pc, i, output, file,
                   exit_code>>

\* One iteration of the loop of create_multi_provider_entry: parse the spec,
\* continue when its type is unknown to the network, else count the type and
\* append a provider entry named with the count.
ScanMulti ==
    /\ pc = "create"
    /\ ~ single_provider
    /\ j <= Len(providers)
    /\ LET spec == parse_provider_spec(providers[j])
           p_type == spec.type
       IN  /\ provider_spec_str' = providers[j]
           /\ provider_spec' = spec
           /\ IF ~ has_provider(p_type, NETWORK_DATA[i])
              THEN UNCHANGED <<provider_counts, chain_entry>>
              ELSE LET counts == increment(provider_counts, p_type)
                       count == counts[p_type]
                   IN  /\ provider_counts' = counts
                       /\ chain_entry' =
                            [chain_entry EXCEPT !.providers =
                                Append(@, create_provider_entry(p_type, spec,
                                                                NETWORK_DATA[i], << count >>))]
    /\ j' = j + 1
    /\ UNCHANGED <<providers, networks, chains, single_provider, pc, i, output, file,
                   exit_code>>

\* create_multi_provider_entry ran out of specs: return chain_entry.
ReturnMulti ==
    /\ pc = "create"
    /\ ~ single_provider
    /\ j > Len(providers)
    /\ pc' = "append"
    /\ UNCHANGED <<providers, networks, chains, single_provider, i, j, provider_spec_str, provider_spec,
                   provider_counts, chain_entry, output, file, exit_code>>

\* Mutant of AppendEntry: the entry is inserted at the front of the list.
AppendEntry_Prepend ==
    /\ pc = "append"
    /\ IF chain_entry # None /\ is_valid_chain_entry(chain_entry, single_provider)
       THEN output' = [output EXCEPT !.chains = << chain_entry >> \o @]
       ELSE UNCHANGED output
    /\ i' = i + 1
    /\ pc' = "generate"
    /\ UNCHANGED <<providers, networks, chains, single_provider, j, provider_spec_str,
                   provider_spec, provider_counts, chain_entry, file, exit_code>>

\* Back in generate_*_config:
\* if chain_entry and is_valid_chain_entry(...): output["chains"].append(...)
AppendEntry ==
    /\ pc = "append"
    /\ IF chain_entry # None /\ is_valid_chain_entry(chain_entry, single_provider)
       THEN output' = [output EXCEPT !.chains = Append(@, chain_entry)]
       ELSE UNCHANGED output
    /\ i' = i + 1
    /\ pc' = "generate"
    /\ UNCHANGED <<providers, networks, chains, single_provider, j, provider_spec_str, provider_spec,
                   provider_counts, chain_entry, file, exit_code>>

\* The NETWORK_DATA loop is over: generate_*_config returns output to main.
ReturnConfig ==
    /\ pc = "generate"
    /\ i > Len(NETWORK_DATA)
    /\ pc' = "write"
    /\ UNCHANGED <<providers, networks, chains, single_provider, i, j, provider_spec_str, provider_spec,
                   provider_counts, chain_entry, output, file, exit_code>>

\* with open(args.output, "w") as f: json.dump(config, f); print(...); exit 0
WriteOutput ==
    /\ pc = "write"
    /\ file' = output
    /\ exit_code' = 0
    /\ pc' = "done"
    /\ UNCHANGED <<providers, networks, chains, single_provider, i, j, provider_spec_str, provider_spec,
                   provider_counts, chain_entry, output>>

\* open(args.output, "w") raises OSError (unwritable path): the uncaught
\* exception ends the interpreter with status 1 and nothing is written.
WriteFails ==
    /\ pc = "write"
    /\ exit_code' = 1
    /\ pc' = "done"
    /\ UNCHANGED <<providers, networks, chains, single_provider, i, j, provider_spec_str, provider_spec,
                   provider_counts, chain_entry, output, file>>

Next ==
    \/ SkipNetwork
    \/ EnterSingle
    \/ EnterMulti
    \/ ScanSingle
    \/ ReturnNone
    \/ ScanMulti
    \/ ReturnMulti
    \/ AppendEntry
    \/ ReturnConfig
    \/ WriteOutput
    \/ WriteFails

Spec == Init /\ [][Next]_vars

------------------------------------------------------------------------------
(* Vocabulary of the properties *)

Range(list) == { list[k] : k \in 1..Len(list) }

\* The position in NETWORK_DATA of the entry an output ChainEntry was built from.
TableIndex(c) ==
    CHOOSE n \in 1..Len(NETWORK_DATA) :
        NETWORK_DATA[n].chain = c.name /\ NETWORK_DATA[n].network = c.network

\* The NetworkEntry passes the chain/network filter.
Requested(nd) == nd.chain \in Range(chains) /\ nd.network \in Range(networks)

\* The positions of the caller's specs whose type is a key of nd's provider
\* map, in caller order.
MatchSeq(nd) ==
    SelectSeq([k \in 1..Len(providers) |-> k],
              LAMBDA k : parse_provider_spec(providers[k]).type \in DOMAIN nd.providers)

\* The auth fields of a ProviderEntry are those of the spec.
SameAuth(p, spec) ==
    /\ p.type = spec.type
    /\ p.authType = spec.auth_type
    /\ p.authToken = spec.auth_token
    /\ p.authLogin = spec.auth_login
    /\ p.authPassword = spec.auth_password

\* The number of occurrences of character c in s.
RECURSIVE CountChar(_, _)
CountChar(s, c) ==
    IF Len(s) = 0 THEN 0
    ELSE (IF SubSeq(s, 1, 1) = c THEN 1 ELSE 0) + CountChar(SubSeq(s, 2, Len(s)), c)

Finished == pc = "done"

------------------------------------------------------------------------------
(* The claims *)

\* C1: in multi-provider mode every emitted ProviderEntry is named
\* Capitalize(type) + "-" + ordinal + " " + Capitalize(chain); for providers
\* infura:TOK1 grove:TOK2, networks mainnet, chains ethereum the document has
\* exactly one ChainEntry (ethereum/mainnet, chainId 1) with exactly the two
\* providers "Infura-1 Ethereum" and "Grove-1 Ethereum", in that order, with
\* token-auth, tokens TOK1 and TOK2, and chainId 1.
C1_MultiProviderNames ==
    ~ single_provider =>
        /\ \A m \in 1..Len(output.chains) :
             \A k \in 1..Len(output.chains[m].providers) :
                LET c == output.chains[m]
                    p == c.providers[k]
                IN  \E n \in 1..Len(providers) :
                        p.name = Capitalize(p.type) \o "-" \o Str(n) \o " "
                                 \o Capitalize(c.name)
        /\ ( /\ Finished
             /\ file # None
             /\ providers = << "infura:TOK1", "grove:TOK2" >>
             /\ networks = << "mainnet" >>
             /\ chains = << "ethereum" >> )
           => /\ Len(file.chains) = 1
              /\ file.chains[1].name = "ethereum"
              /\ file.chains[1].network = "mainnet"
              /\ file.chains[1].chainId = 1
              /\ Len(file.chains[1].providers) = 2
              /\ LET p1 == file.chains[1].providers[1]
                     p2 == file.chains[1].providers[2]
                 IN  /\ p1.name = "Infura-1 Ethereum"
                     /\ p2.name = "Grove-1 Ethereum"
                     /\ p1.authType = "token-auth" /\ p2.authType = "token-auth"
                     /\ p1.authToken = "TOK1" /\ p2.authToken = "TOK2"
                     /\ p1.chainId = 1 /\ p2.chainId = 1

\* C2: in single-provider mode every output ChainEntry carries exactly one
\* `provider`, built from the first spec, in caller order, whose type is a key
\* of its NetworkEntry's provider map: same type and auth fields, name
\* Capitalize(type); later matching specs are ignored, and every NetworkEntry
\* that passes the filter and has a matching spec has its ChainEntry. For
\* infura:TOK1 grove:TOK2 on ethereum/mainnet the name is "Infura".
C2_SingleFirstMatch ==
    single_provider =>
        /\ \A m \in 1..Len(output.chains) :
             LET c == output.chains[m]
                 nd == NETWORK_DATA[TableIndex(c)]
                 matches == MatchSeq(nd)
             IN  /\ DOMAIN c = { "name", "network", "chainId", "provider" }
                 /\ Len(matches) >= 1
                 /\ SameAuth(c.provider, parse_provider_spec(providers[matches[1]]))
                 /\ c.provider.name = Capitalize(c.provider.type)
                 /\ ( /\ providers = << "infura:TOK1", "grove:TOK2" >>
                      /\ c.name = "ethereum"
                      /\ c.network = "mainnet" )
                    => c.provider.name = "Infura"
        /\ pc \in { "write", "done" } =>
             \A n \in 1..Len(NETWORK_DATA) :
                (Requested(NETWORK_DATA[n]) /\ Len(MatchSeq(NETWORK_DATA[n])) >= 1)
                => \E m \in 1..Len(output.chains) : TableIndex(output.chains[m]) = n

\* A single-mode run that finished with an entry for which two of the
\* caller's specs match, the second being ignored.
C2_Witness ==
    /\ single_provider
    /\ Finished
    /\ \E m \in 1..Len(output.chains) :
          LET matches == MatchSeq(NETWORK_DATA[TableIndex(output.chains[m])])
          IN  /\ Len(matches) >= 2
              /\ providers[matches[1]] # providers[matches[2]]
              /\ output.chains[m].provider.authToken
                    = parse_provider_spec(providers[matches[1]]).auth_token

\* C3: in both modes every output ChainEntry has its name among the requested
\* chains and its network among the requested networks, and its (name,
\* network, chainId) is that of a NetworkEntry of the table: an entry whose
\* chain or whose network is not requested never contributes.
C3_FilterRespected ==
    \A m \in 1..Len(output.chains) :
        LET c == output.chains[m]
        IN  /\ c.name \in Range(chains)
            /\ c.network \in Range(networks)
            /\ \E n \in 1..Len(NETWORK_DATA) :
                  /\ NETWORK_DATA[n].chain = c.name
                  /\ NETWORK_DATA[n].network = c.network
                  /\ NETWORK_DATA[n].chainId = c.chainId

\* A finished run with output, in which a NetworkEntry of a requested chain
\* has a matching spec but an unrequested network.
C3_Witness ==
    /\ Finished
    /\ Len(output.chains) >= 1
    /\ \E n \in 1..Len(NETWORK_DATA) :
          /\ NETWORK_DATA[n].chain \in Range(chains)
          /\ NETWORK_DATA[n].network \notin Range(networks)
          /\ Len(MatchSeq(NETWORK_DATA[n])) >= 1

\* C4: in both modes a ChainEntry is in the output only if at least one of the
\* caller's specs has a type that is a key of its NetworkEntry's provider map;
\* with zero matches the NetworkEntry is omitted and the run does not fail for
\* it (a written document comes with exit status 0). No multi-mode ChainEntry
\* has an empty `providers`, no single-mode ChainEntry lacks `provider`.
C4_OnlyMatchedEntries ==
    /\ \A m \in 1..Len(output.chains) :
          LET c == output.chains[m]
          IN  /\ Len(MatchSeq(NETWORK_DATA[TableIndex(c)])) >= 1
              /\ single_provider => "provider" \in DOMAIN c
              /\ ~ single_provider =>
                    "providers" \in DOMAIN c /\ Len(c.providers) >= 1
    /\ (Finished /\ file # None) => (exit_code = 0 /\ file = output)

\* A run that wrote its document with status 0 although a requested
\* NetworkEntry had no matching spec and was omitted.
C4_Witness ==
    /\ Finished
    /\ file # None
    /\ exit_code = 0
    /\ Len(file.chains) >= 1
    /\ \E n \in 1..Len(NETWORK_DATA) :
          /\ Requested(NETWORK_DATA[n])
          /\ Len(MatchSeq(NETWORK_DATA[n])) = 0
          /\ \A m \in 1..Len(file.chains) : TableIndex(file.chains[m]) # n

\* C5: in multi-provider mode the `providers` of every output ChainEntry holds
\* exactly one ProviderEntry per spec of the caller's list whose type is a key
\* of its NetworkEntry's provider map, in the order of the list, duplicates
\* included, and none for any other spec (status_network is never matched on
\* an ethereum entry, infura never on status/sepolia).
C5_MultiAllMatches ==
    ~ single_provider =>
        \A m \in 1..Len(output.chains) :
            LET c == output.chains[m]
                nd == NETWORK_DATA[TableIndex(c)]
                matches == MatchSeq(nd)
            IN  /\ Len(c.providers) = Len(matches)
                /\ \A k \in 1..Len(c.providers) :
                      /\ k <= Len(matches)
                      /\ SameAuth(c.providers[k],
                                  parse_provider_spec(providers[matches[k]]))
                      /\ c.providers[k].type \in DOMAIN nd.providers
                      /\ c.name = "ethereum" => c.providers[k].type # STATUS_NETWORK
                      /\ c.name = "status" => c.providers[k].type # INFURA

\* A finished multi-mode run with an entry that holds a provider for some but
\* not all of the caller's specs.
C5_Witness ==
    /\ ~ single_provider
    /\ Finished
    /\ \E m \in 1..Len(output.chains) :
          /\ Len(output.chains[m].providers) >= 1
          /\ Len(output.chains[m].providers) < Len(providers)

\* C6: in multi-provider mode the ordinal in a ProviderEntry's name counts the
\* entries of the same type within the same ChainEntry: the k-th entry of a
\* type carries k (the text after the capitalized type is the decimal k), an
\* entry of another type does not advance it, and every ChainEntry counts
\* from 1 again.
C6_OrdinalPerChainAndType ==
    ~ single_provider =>
        \A m \in 1..Len(output.chains) :
            \A k \in 1..Len(output.chains[m].providers) :
                LET ps == output.chains[m].providers
                    p == ps[k]
                    ordinal == Cardinality({ q \in 1..k : ps[q].type = p.type })
                IN  /\ SubSeq(p.name, 1, Len(p.type)) = Capitalize(p.type)
                    /\ SubSeq(p.name, Len(p.type) + 1, Len(p.name)) = Str(ordinal)

\* A finished multi-mode run whose second ChainEntry holds two providers of
\* one type: the counter reached 2 and had been reset after the first entry.
C6_Witness ==
    /\ ~ single_provider
    /\ Finished
    /\ Len(output.chains) >= 2
    /\ Len(output.chains[1].providers) >= 2
    /\ Len(output.chains[2].providers) >= 2
    /\ output.chains[2].providers[1].type = output.chains[2].providers[2].type

\* C7: parse_provider_spec splits on ':' into at most 3 parts. No ':' gives
\* the whole string as type and no-auth; exactly one ':' gives token-auth, the
\* type before it and the token after it; two or more give basic-auth, the
\* type before the first ':', the login between the first and the second, and
\* as password everything after the second, further ':' included
\* ("grove:alice:s3cr3t:more" gives login "alice", password "s3cr3t:more").
C7_ParseSplitsAtMostThree ==
    provider_spec # None =>
        LET s == provider_spec_str
            r == provider_spec
            n == CountChar(s, ":")
        IN  /\ n = 0 => (r.type = s /\ r.auth_type = "no-auth")
            /\ n = 1 => /\ r.auth_type = "token-auth"
                        /\ s = r.type \o ":" \o r.auth_token
                        /\ CountChar(r.type, ":") = 0
            /\ n >= 2 => /\ r.auth_type = "basic-auth"
                         /\ s = r.type \o ":" \o r.auth_login \o ":" \o r.auth_password
                         /\ CountChar(r.type, ":") = 0
                         /\ CountChar(r.auth_login, ":") = 0
            /\ s = "grove:alice:s3cr3t:more" =>
                  (r.auth_login = "alice" /\ r.auth_password = "s3cr3t:more")

\* The spec with three ':' has been parsed.
C7_Witness ==
    /\ provider_spec # None
    /\ provider_spec_str = "grove:alice:s3cr3t:more"
    /\ provider_spec.type = "grove"
    /\ provider_spec.auth_password = "s3cr3t:more"

\* The token, and the login/password pair, of a parsed spec are populated.
TokenPopulated(r) == r.auth_token # ""
BasicPopulated(r) == r.auth_login # "" /\ r.auth_password # ""

\* C8 as stated: every spec returned by parse_provider_spec has exactly one of
\* {authToken} and {authLogin, authPassword} populated (non-empty), the one
\* its authType selects.
C8_ExactlyOnePopulated ==
    provider_spec # None =>
        LET r == provider_spec
        IN  /\ TokenPopulated(r) # BasicPopulated(r)
            /\ r.auth_type = "token-auth" => TokenPopulated(r)
            /\ r.auth_type = "basic-auth" => BasicPopulated(r)

\* C8 as amended: at most one of {authToken} and {authLogin, authPassword} is
\* populated, and only the one its authType selects: no-auth leaves all three
\* empty, token-auth leaves authLogin and authPassword empty, basic-auth
\* leaves authToken empty; the selected fields hold the text around the ':'
\* and are empty when that text is.
C8_AtMostOnePopulated ==
    provider_spec # None =>
        LET r == provider_spec
            s == provider_spec_str
        IN  /\ r.auth_type \in { "no-auth", "token-auth", "basic-auth" }
            /\ r.auth_type = "no-auth" =>
                  (r.auth_token = "" /\ r.auth_login = "" /\ r.auth_password = "")
            /\ r.auth_type = "token-auth" =>
                  /\ r.auth_login = "" /\ r.auth_password = ""
                  /\ s = r.type \o ":" \o r.auth_token
            /\ r.auth_type = "basic-auth" =>
                  /\ r.auth_token = ""
                  /\ s = r.type \o ":" \o r.auth_login \o ":" \o r.auth_password
            /\ ~ (TokenPopulated(r) /\ (r.auth_login # "" \/ r.auth_password # ""))

\* A token-auth spec parsed from a string with nothing after the ':': neither
\* group is populated.
C8_Witness ==
    /\ provider_spec # None
    /\ provider_spec.auth_type = "token-auth"
    /\ provider_spec_str = "infura:"
    /\ ~ TokenPopulated(provider_spec)
    /\ ~ BasicPopulated(provider_spec)

\* C9: an empty-string entry in the provider list is reported as an error and
\* the invocation ends with a non-zero exit status without producing a
\* document.
C9_EmptySpecFails ==
    (Finished /\ "" \in Range(providers)) => (exit_code # 0 /\ file = None)

\* C10: in both modes the output `chains` keeps the order of NETWORK_DATA: the
\* table positions of successive ChainEntries strictly increase (so each
\* NetworkEntry contributes at most one), and when generation is over they
\* are exactly the positions of the requested entries with a matching spec,
\* which depends only on which chains, networks and spec types were supplied,
\* not on their order.
C10_TableOrder ==
    /\ \A a \in 1..Len(output.chains) : \A b \in 1..Len(output.chains) :
          a < b => TableIndex(output.chains[a]) < TableIndex(output.chains[b])
    /\ pc \in { "write", "done" } =>
          [m \in 1..Len(output.chains) |-> TableIndex(output.chains[m])]
          = SelectSeq([n \in 1..Len(NETWORK_DATA) |-> n],
                      LAMBDA n :
                        /\ Requested(NETWORK_DATA[n])
                        /\ \E s \in Range(providers) :
                              parse_provider_spec(s).type
                                \in DOMAIN NETWORK_DATA[n].providers)

\* A finished run whose chains and specs were supplied in the reverse of the
\* table's order, and whose output still lists ethereum before status.
C10_Witness ==
    /\ Finished
    /\ Len(chains) >= 2
    /\ chains[1] = "status" /\ chains[2] = "ethereum"
    /\ providers[1] = "status_network"
    /\ Len(output.chains) >= 2
    /\ output.chains[1].name = "ethereum"
    /\ output.chains[Len(output.chains)].name = "status"

\* The document of the finished generation in single-provider mode, and in
\* multi-provider mode, for the arguments of this run: the one this run built
\* and the one the other generator returns for the same arguments.
SingleConfig ==
    IF single_provider THEN output
    ELSE generate_single_provider_config(providers, networks, chains)

MultiConfig ==
    IF single_provider
    THEN generate_multi_provider_config(providers, networks, chains)
    ELSE output

\* C11: the two resolvers agree. For the same provider list, chains and
\* networks, generate_single_provider_config and generate_multi_provider_config
\* give the same sequence of (name, network, chainId) headers, and for each of
\* them the single-mode `provider` equals the first of the multi-mode
\* `providers` in type, url, authType, authToken, authLogin, authPassword and
\* chainId (every field but name), its url being the table's URL for that type
\* on that NetworkEntry and its chainId the enclosing ChainEntry's.
C11_ResolversAgree ==
    pc \in { "write", "done" } =>
        LET sc == SingleConfig.chains
            mc == MultiConfig.chains
        IN  /\ Len(sc) = Len(mc)
            /\ \A m \in 1..Len(sc) :
                  /\ m <= Len(mc)
                  /\ sc[m].name = mc[m].name
                  /\ sc[m].network = mc[m].network
                  /\ sc[m].chainId = mc[m].chainId
                  /\ Len(mc[m].providers) >= 1
                  /\ LET p == sc[m].provider
                         q == mc[m].providers[1]
                         nd == NETWORK_DATA[TableIndex(sc[m])]
                     IN  /\ p.type = q.type
                         /\ p.url = q.url
                         /\ p.authType = q.authType
                         /\ p.authToken = q.authToken
                         /\ p.authLogin = q.authLogin
                         /\ p.authPassword = q.authPassword
                         /\ p.chainId = q.chainId
                         /\ p.type \in DOMAIN nd.providers
                         /\ p.url = nd.providers[p.type]
                         /\ p.chainId = sc[m].chainId

\* A finished single-mode run with two entries, for the first of which the
\* multi-mode generator returns two providers of different specs.
C11_Witness ==
    /\ single_provider
    /\ Finished
    /\ Len(output.chains) >= 2
    /\ Len(MultiConfig.chains) >= 2
    /\ Len(MultiConfig.chains[1].providers) >= 2
    /\ MultiConfig.chains[1].providers[1].authToken
         # MultiConfig.chains[1].providers[2].authToken

====
